---- MODULE Spec2Model ----
(***************************************************************************)
(* The workflow runtime of aiida.orm.workflow: the step invoker, next(),   *)
(* the lazy attachment buffers, kill / sleep / revive and the report.      *)
(*                                                                         *)
(* The database tables (DbWorkflow, DbWorkflowStep and the relations of a  *)
(* step to its calculations and sub-workflows) are the state.  A workflow  *)
(* object lives in one process: its two lazy-storage dictionaries are      *)
(* in-memory only and are lost when the daemon re-materialises the object. *)
(* A burst is one call of a decorated step method; its body is user code,  *)
(* modelled as any sequence of the engine calls a body can make.  next()   *)
(* is split at its database writes, so that the states between two writes  *)
(* are states of the model.                                                *)
(***************************************************************************)
EXTENDS Integers, Sequences, FiniteSets, TLC

\* ---------------------------------------------------------------- bounds
MaxOps     == 2      \* calls made from outside a step body in one behaviour
MaxBodyOps == 3      \* engine calls made by step bodies in one behaviour
MaxReport  == 2      \* report lines appended by user calls
MaxTreeOps   == 3    \* the same two budgets for SpecKill
MaxTreeCalls == 5
MaxReportOps   == 3  \* and for SpecReport
MaxReportCalls == 4
MaxStoreOps    == 4  \* calls made on the workflow in a behaviour of SpecStore
MaxRaiseOps    == 3  \* the two budgets for SpecRaise
MaxRaiseCalls  == 4
MaxUserOps     == 3  \* the two budgets for SpecUser
MaxUserCalls   == 2
MaxSchemaOps   == 4  \* calls made in a behaviour of SpecSchema
MaxStatusOps   == 3  \* calls made in a behaviour of SpecStatus
MaxReviveOps   == 3  \* the two budgets for SpecRevive
MaxReviveCalls == 2
MaxCycleOps    == 3  \* and for SpecCycle
MaxCycleCalls  == 3

\* ------------------------------------------------------------- universes
WF          == {"A", "B", "C"}          \* workflow objects
CALC        == {"c1", "c2"}             \* calculations
StepMethods == {"start", "middle"}      \* methods decorated with @Workflow.step
Helper      == "helper"                 \* a method that is not decorated
Callers     == StepMethods \cup {Helper}
NoneArg     == "None"
Texts       == {"x"}

wf_exit_call    == "__exit__"
wf_default_call == "__default__"
wf_states == {"CREATED", "INITIALIZED", "RUNNING", "SLEEP", "FINISHED", "ERROR"}

\* What next() can be given: a decorated method, the exit method, an
\* undecorated method, or None.
NextArgs == StepMethods \cup {wf_exit_call, Helper, NoneArg}

None == "-"

VARIABLES
    stored,      \* [WF -> BOOLEAN]: not _to_be_stored
    wfStatus,    \* [WF -> wf_states \cup {None}]: DbWorkflow.status
    scriptMd5,   \* [WF -> digest]: DbWorkflow.script_md5
    report,      \* [WF -> Seq(token)]: DbWorkflow.report, a text; a token is
                 \* a piece of text without a line break, or a line break
    steps,       \* [WF -> Seq(step record)]: DbWorkflowStep rows, by creation
    calcState,   \* [CALC -> state of the calculation]
    lazyCalc,    \* [WF -> [Callers -> Seq(CALC)]]: attach_calc_lazy_storage
    lazySubwf,   \* [WF -> [Callers -> Seq(WF)]]: attach_subwf_lazy_storage
    pc,          \* where the running burst is
    cw,          \* the workflow whose step method is running
    cs,          \* the name of the running step method (wrapped_method)
    nx,          \* the next() call in progress
    nbody,       \* engine calls the step bodies may still make
    ops,         \* calls that may still be made from outside a step body
    ev,          \* the last call and how it ended
    repo,        \* [WF -> record]: the DbWorkflow records created for the
                 \* object, the folder moves made, its sandbox folder
                 \* (_temp_folder) and its repository folder
    env          \* the process and its database: the active profile, the
                 \* module global _aiida_autouser_cache, the user of each
                 \* workflow record, whether the DbSetting table exists
                 \* and its rows

vars == <<stored, wfStatus, scriptMd5, report, steps, calcState, lazyCalc,
          lazySubwf, pc, cw, cs, nx, nbody, ops, ev, repo, env>>

\* ---------------------------------------------------------------- helpers
Range(s) == {s[i] : i \in 1..Len(s)}

NoNext == [caller |-> None, arg |-> None, i |-> 0, written |-> FALSE,
           before |-> None]

\* A call of the engine and how it ended: the method, the workflow it was
\* called on, the method it was called from, its argument, the exception it
\* raised (None for a normal return) and the value it returned.
Event(op, w, who, arg, exc) ==
    [op |-> op, wf |-> w, who |-> who, arg |-> arg, exc |-> exc, ret |-> <<>>]

EmptyLazyCalc  == [c \in Callers |-> <<>>]
EmptyLazySubwf == [c \in Callers |-> <<>>]

\* script_path is the file that defines the class; it is never rewritten.
ScriptPath(w) == <<"aiida", "workflows", w>>

\* hashlib.md5(path).hexdigest(): a digest of the path string (not of the
\* file's content).  Digests are modelled as <<"md5", n>> with n computed
\* from the path; distinct paths of the model get distinct digests.
PathCode(p) == CASE p[3] = "A" -> 1 [] p[3] = "B" -> 2 [] OTHER -> 3
Md5(p) == <<"md5", (PathCode(p) * 5 + 3) % 7>>

\* A digest no path of the model hashes to: what a record written by
\* something else than store() may hold.
StaleMd5 == <<"md5", 0>>

\* No record, no digest.
NoMd5 == <<>>

\* ----------------------------------------------------------------- users
\* The profiles of the installation and the e-mail each one configures as
\* its default user; the users of the database are named by their e-mail.
\* "p3" configures an e-mail no user has.
Profiles == {"p1", "p2", "p3"}
DbUsers  == {"u1@x", "u2@x"}

\* get_configured_user_email() under profile p (utils.py lines 153-170).
get_configured_user_email(p) ==
    CASE p = "p1" -> "u1@x" [] p = "p2" -> "u2@x" [] OTHER -> "nobody@x"

\* The test of utils.py line 210: the cached user is returned as it is.
AutouserCached(e) == e.cache # None

\* get_automatic_user() (utils.py lines 203-224) in environment e: the
\* exception it raises, the user it returns and the cache it leaves.
get_automatic_user(e) ==
    IF AutouserCached(e) THEN [exc |-> None, user |-> e.cache, cache |-> e.cache]
    ELSE LET email == get_configured_user_email(e.profile)
         IN  IF email \in DbUsers
             THEN [exc |-> None, user |-> email, cache |-> email]
             ELSE [exc |-> "ConfigurationError", user |-> None, cache |-> e.cache]

\* -------------------------------------------------------- schema version
\* The schema version of the code (aiida.djsite.db.models.SCHEMA_VERSION),
\* an older one, and the key of the global setting that stores it.
SCHEMA_VERSION == "v2"
OldSchemaVersion == "v1"
SchemaKey == "db|schemaversion"

\* The DbSetting rows: none, or the schema version row.
NoSettings == [k \in {} |-> None]
SettingsWith(v) == [k \in {SchemaKey} |-> v]

\* get_global_setting(key): the value, or KeyError when no row has the key.
get_global_setting(e, key) ==
    IF key \in DOMAIN e.settings
    THEN [exc |-> None, val |-> e.settings[key]]
    ELSE [exc |-> "KeyError", val |-> None]

\* get_db_schema_version() (utils.py lines 246-256): KeyError becomes None.
get_db_schema_version(e) ==
    LET r == get_global_setting(e, SchemaKey)
    IN  IF r.exc = "KeyError" THEN None ELSE r.val

\* set_db_schema_version(version) (utils.py lines 259-268).
set_db_schema_version(e, version) ==
    [e EXCEPT !.settings = SettingsWith(version)]

\* The test of utils.py line 301: the two versions differ.
SchemaMismatchNever(code, db) == FALSE

SchemaMismatch(code, db) == code # db

\* check_schema_version() (utils.py lines 271-311) in environment e: the
\* exception it raises and the environment it leaves.
check_schema_version(e) ==
    IF ~e.table THEN [exc |-> None, env |-> e]
    ELSE LET code == SCHEMA_VERSION
             e1   == IF get_db_schema_version(e) = None
                     THEN set_db_schema_version(e, code) ELSE e
             db   == get_db_schema_version(e1)
         IN  [exc |-> IF SchemaMismatch(code, db) THEN "ConfigurationError" ELSE None,
              env |-> e1]

\* ------------------------------------------------------------ step table
NewStep(n) == [name |-> n, status |-> "INITIALIZED", nextcall |-> wf_default_call,
               calcs |-> <<>>, subwfs |-> <<>>]

\* Index of the row steps.get(name=n) returns, 0 for ObjectDoesNotExist.
StepIdx(ss, n) ==
    IF \E i \in 1..Len(ss) : ss[i].name = n
    THEN CHOOSE i \in 1..Len(ss) :
             ss[i].name = n /\ \A j \in 1..(i - 1) : ss[j].name # n
    ELSE 0

has_step(ss, n) == StepIdx(ss, n) # 0

get_step(ss, n) == ss[StepIdx(ss, n)]

get_or_create_always(ss, n) == Append(ss, NewStep(n))

get_or_create(ss, n) == IF has_step(ss, n) THEN ss ELSE Append(ss, NewStep(n))

\* ------------------------------------------------------------------ kill
\* The effect of kill() on the database is computed on a record
\* [st: the workflow statuses, cs: the calculation states, ok].  The step
\* rows are read, never written, by kill().  kill() recurses without any
\* check; on a workflow it is already killing further up the stack the
\* recursion never returns and Python ends it with a RuntimeError
\* (maximum recursion depth exceeded): ok = FALSE, with the writes made so
\* far kept and no status written on the way out.
Db(st, cstate) == [st |-> st, cs |-> cstate, ok |-> TRUE]

\* kill_step_calculations: c._set_state(calc_states.FINISHED) for each one.
kill_step_calculations_none(db, s) == db

kill_step_calculations(db, s) ==
    [db EXCEPT !.cs = [c \in CALC |-> IF c \in Range(s.calcs) THEN "FINISHED" ELSE @[c]]]

\* The rows get_steps(state=RUNNING) yields for kill().
KillFilterAll(s) == TRUE

KillFilter(s) == s.status = "RUNNING"

KillSubWfsSkip(ws, i, path, db) == db

RECURSIVE KillWf(_, _, _)
RECURSIVE KillSubWfs(_, _, _, _)
RECURSIVE KillSteps(_, _, _, _)

\* for w in ws[i..]: w.kill()
KillSubWfs(ws, i, path, db) ==
    IF i > Len(ws) \/ ~db.ok THEN db
    ELSE KillSubWfs(ws, i + 1, path, KillWf(ws[i], path, db))

\* for s in get_steps(state=RUNNING)[i..]: calculations, then sub-workflows
KillSteps(w, i, path, db) ==
    IF i > Len(steps[w]) \/ ~db.ok THEN db
    ELSE IF ~KillFilter(steps[w][i]) THEN KillSteps(w, i + 1, path, db)
    ELSE KillSteps(w, i + 1, path,
             KillSubWfs(steps[w][i].subwfs, 1, path,
                        kill_step_calculations(db, steps[w][i])))

\* The status kill() leaves on the workflow when its loop ends.
KillFinalStatusNone(old) == old

KillFinalStatus(old) == "FINISHED"

KillWf(w, path, db) ==
    IF w \in path THEN [db EXCEPT !.ok = FALSE]
    ELSE LET r == KillSteps(w, 1, path \cup {w}, db)
         IN  IF r.ok THEN [r EXCEPT !.st[w] = KillFinalStatus(@)] ELSE r

\* Calculation.kill(): the calculation ends killed.
CalcKill(db, cl) ==
    [db EXCEPT !.cs = [c \in CALC |-> IF c \in Range(cl) THEN "KILLED" ELSE @[c]]]

TerminalCalc == {"FINISHED", "KILLED"}

\* ----------------------------------------------------------------- store
\* store(): DbWorkflow.objects.create(...) with the digest of caller_file.
StoreStatus == "CREATED"

\* The entry __init__ puts in the sandbox folder: the file of the class.
ClassEntry == "class_file"

\* The folders of an object that has not been stored, and of one loaded by
\* uuid (its record and its repository folder exist, it has no sandbox).
FreshRepo  == [records |-> 0, moves |-> 0, hasTemp |-> TRUE,
               temp |-> {ClassEntry}, perm |-> {}]
LoadedRepo == [records |-> 1, moves |-> 1, hasTemp |-> FALSE,
               temp |-> {}, perm |-> {ClassEntry}]

\* store() on the folders (lines 234-246): one record is created, the
\* sandbox replaces the repository folder by a move, _temp_folder = None.
StoreRepo(r) == [records |-> r.records + 1, moves |-> r.moves + 1,
                 hasTemp |-> FALSE, temp |-> {}, perm |-> r.temp]

\* The test of line 418: the wrapper stores the workflow first.
MustStoreAlways(w) == TRUE

MustStore(w) == ~stored[w]

\* The test of lines 174 and 190: the path methods refuse a stored node.
PathOpRefusedNever(w) == FALSE

PathOpRefused(w) == stored[w]

\* Paths handed to add_path and remove_path, and os.path.isabs.
Paths == {"/tmp/f", "f"}
isabs(p) == p = "/tmp/f"

\* The entry of the folder a relative path names.
EntryOf(p) == IF isabs(p) THEN "tmp/f" ELSE p

\* current_folder (lines 147-152): the sandbox before store(), the
\* repository folder after; its content, and repo with that content set.
current_folder(w) == IF stored[w] THEN repo[w].perm ELSE repo[w].temp

SetCurrentFolder(w, content) ==
    IF stored[w] THEN [repo EXCEPT ![w].perm = content]
    ELSE [repo EXCEPT ![w].temp = content]

\* ---------------------------------------------------------- step wrapper
\* The guard of lines 425-433, on the row of the wrapped method.
ReentryRefusedNoSleep(s, m) ==
    ~(s.status = "ERROR" \/ s.nextcall = wf_default_call \/ s.nextcall = m)

ReentryRefused(s, m) ==
    ~(s.status = "ERROR" \/ s.status = "SLEEP"
      \/ s.nextcall = wf_default_call \/ s.nextcall = m)

\* The test of lines 436-438: the step is restarted after a clean-up.
NeedsRestart(s) == s.status = "ERROR" \/ s.status = "SLEEP"

\* remove_sub_workflows() and remove_calculations() on row i.
ClearAttachmentsKeep(ss, i) == ss

ClearAttachments(ss, i) == [ss EXCEPT ![i].subwfs = <<>>, ![i].calcs = <<>>]

\* Lines 440-444 on row i of workflow w: kill and remove the sub-workflows,
\* then kill and remove the calculations.  A kill() that does not return
\* leaves the lists as they are.
RestartClean(w, i, db) ==
    LET k == KillSubWfs(steps[w][i].subwfs, 1, {}, db)
    IN  IF ~k.ok THEN [db |-> k, steps |-> steps[w]]
        ELSE [db |-> CalcKill(k, steps[w][i].calcs),
              steps |-> ClearAttachments(steps[w], i)]

\* The test of line 421: positional arguments were passed.
ArgsRefusedNever(nargs) == FALSE

ArgsRefused(nargs) == nargs > 0

\* The wrapper up to the call of the body (lines 417-448): what it writes
\* and whether it raises.
\* store() and get_or_create(..., user=get_automatic_user()) resolve the
\* user first: when that raises, store() creates nothing and line 448
\* creates no row.
WrapperPrelude(w, m, nargs) ==
    LET u    == get_automatic_user(env)
        st0  == IF MustStore(w) THEN StoreStatus ELSE wfStatus[w]
        md0  == IF MustStore(w) THEN Md5(ScriptPath(w)) ELSE scriptMd5[w]
        env0 == IF MustStore(w)
                THEN [env EXCEPT !.cache = u.cache, !.owner[w] = u.user]
                ELSE env
        base == [exc |-> None, status |-> st0, md5 |-> md0, stored |-> TRUE,
                 repo |-> IF MustStore(w) THEN StoreRepo(repo[w]) ELSE repo[w],
                 db |-> Db([wfStatus EXCEPT ![w] = st0], calcState),
                 steps |-> steps[w], env |-> env0]
        i    == StepIdx(steps[w], m)
    IN  IF MustStore(w) /\ u.exc # None
        THEN [exc |-> u.exc, status |-> wfStatus[w], md5 |-> scriptMd5[w],
              stored |-> stored[w], repo |-> repo[w],
              db |-> Db(wfStatus, calcState), steps |-> steps[w], env |-> env]
        ELSE IF ArgsRefused(nargs) THEN [base EXCEPT !.exc = "InvalidStepCall"]
        ELSE IF i # 0 /\ ReentryRefused(steps[w][i], m)
        THEN [base EXCEPT !.exc = "StepAlreadyInitialized"]
        ELSE IF i # 0 /\ NeedsRestart(steps[w][i])
        THEN LET r == RestartClean(w, i, base.db)
             IN  IF ~r.db.ok
                 THEN [base EXCEPT !.exc = "RuntimeError", !.db = r.db]
                 ELSE IF u.exc # None
                 THEN [base EXCEPT !.exc = u.exc, !.db = r.db, !.steps = r.steps]
                 ELSE [base EXCEPT !.db = r.db, !.env.cache = u.cache,
                                   !.steps = get_or_create(r.steps, m)]
        ELSE IF u.exc # None THEN [base EXCEPT !.exc = u.exc]
        ELSE [base EXCEPT !.steps = get_or_create(steps[w], m),
                          !.env.cache = u.cache]

\* ---------------------------------------------------------------- revive
\* Lines 768-778 from row i on, on [db, steps, ok]: every ERROR step has its
\* sub-workflows killed and removed, its calculations killed and removed,
\* and is set to INITIALIZED.
ReviveStatusKeep(old) == old

ReviveStatus(old) == "INITIALIZED"

RECURSIVE ReviveSteps(_, _, _)
ReviveSteps(w, i, acc) ==
    IF i > Len(steps[w]) \/ ~acc.db.ok THEN acc
    ELSE IF steps[w][i].status # "ERROR" THEN ReviveSteps(w, i + 1, acc)
    ELSE LET k == KillSubWfs(steps[w][i].subwfs, 1, {}, acc.db)
         IN  IF ~k.ok THEN [acc EXCEPT !.db = k]
             ELSE ReviveSteps(w, i + 1,
                      [db |-> CalcKill(k, steps[w][i].calcs),
                       steps |-> [ClearAttachments(acc.steps, i)
                                     EXCEPT ![i].status = ReviveStatus(@)]])

\* ---------------------------------------------------------------- report
NL == "\n"

\* DbWorkflow.append_to_report(text): the text and a line break are added
\* at the end of the report field.
DbAppendToReport(rep, toks) == rep \o toks \o <<NL>>

\* str.splitlines(): the lines of a text, without their line breaks; a line
\* break at the very end opens no further line.
RECURSIVE SplitFrom(_, _, _)
SplitFrom(txt, cur, acc) ==
    IF txt = <<>> THEN (IF cur = <<>> THEN acc ELSE Append(acc, cur))
    ELSE IF Head(txt) = NL THEN SplitFrom(Tail(txt), <<>>, Append(acc, cur))
    ELSE SplitFrom(Tail(txt), Append(cur, Head(txt)), acc)

splitlines(txt) == SplitFrom(txt, <<>>, <<>>)

\* parent_workflow_step: the step rows that list w among their sub-workflows.
ParentSteps(w) ==
    UNION {{<<p, i>> : i \in {j \in 1..Len(steps[p]) :
                                  w \in Range(steps[p][j].subwfs)}} : p \in WF}

\* The workflow whose report field the three report methods act on, as
\* they find it: no parent step, this one; else parent_workflow_step.get()
\* (MultipleObjectsReturned for more than one) and the same question on
\* its workflow.  A chain of parents that comes back to a workflow it has
\* left never ends (RuntimeError).
ReportRootOwn(w, path) == [exc |-> None, root |-> w]

RECURSIVE ReportRoot(_, _)
ReportRoot(w, path) ==
    IF ParentSteps(w) = {} THEN [exc |-> None, root |-> w]
    ELSE IF Cardinality(ParentSteps(w)) > 1
    THEN [exc |-> "MultipleObjectsReturned", root |-> None]
    ELSE LET p == (CHOOSE pi \in ParentSteps(w) : TRUE)[1]
         IN  IF p \in path \cup {w} THEN [exc |-> "RuntimeError", root |-> None]
             ELSE ReportRoot(p, path \cup {w})

\* ---------------------------------------------------------------- next()
\* The database writes of next() after its checks, in the order of the code
\* (lines 514-540).
NextOrderSubwfFirst ==
    <<"flush_subwf", "flush_calc", "set_nextcall", "set_wfstatus", "set_stepstatus">>

NextOrderPointerFirst ==
    <<"set_nextcall", "flush_calc", "flush_subwf", "set_wfstatus", "set_stepstatus">>

NextOrderStatusFirst ==
    <<"flush_calc", "flush_subwf", "set_wfstatus", "set_stepstatus", "set_nextcall">>

NextOrder ==
    <<"flush_calc", "flush_subwf", "set_nextcall", "set_wfstatus", "set_stepstatus">>

StageAfter(stage) ==
    LET k == CHOOSE j \in 1..Len(NextOrder) : NextOrder[j] = stage
    IN  IF k = Len(NextOrder) THEN "done" ELSE NextOrder[k + 1]

\* The digest test of lines 480-484.
Md5MismatchNever(w) == FALSE

Md5Mismatch(w) == scriptMd5[w] # Md5(ScriptPath(w))

\* The checks of next() before its first write (lines 483-507): the
\* exception raised, None for none.  getattr(next_method, "is_wf_step",
\* None) has a default and raises nothing for an undecorated method.
NextChecksNoNull(w, caller, arg) ==
    IF Md5Mismatch(w) THEN "IntegrityViolation"
    ELSE IF ~has_step(steps[w], caller) THEN "UnknownCaller"
    ELSE None

NextChecks(w, caller, arg) ==
    IF Md5Mismatch(w) THEN "IntegrityViolation"
    ELSE IF arg = NoneArg THEN "NullNext"
    ELSE IF ~has_step(steps[w], caller) THEN "UnknownCaller"
    ELSE None

\* ------------------------------------------------------------------ Init
\* Each workflow object is either freshly constructed (not stored yet) or
\* loaded by uuid from a record of the database.  The engine did not
\* necessarily write that record: its script_md5 is the digest store()
\* seals or another one.  "A" starts in any of the three ways; "B" and "C"
\* are loaded from records store() wrote.
InitWorkflows ==
    /\ stored \in [WF -> BOOLEAN]
    /\ \A w \in WF \ {"A"} : stored[w]
    /\ scriptMd5 \in [WF -> {NoMd5, StaleMd5} \cup {Md5(ScriptPath(w)) : w \in WF}]
    /\ \A w \in WF : IF ~stored[w] THEN scriptMd5[w] = NoMd5
                     ELSE IF w = "A" THEN scriptMd5[w] \in {Md5(ScriptPath(w)), StaleMd5}
                     ELSE scriptMd5[w] = Md5(ScriptPath(w))
    /\ wfStatus = [w \in WF |-> IF stored[w] THEN StoreStatus ELSE None]
    /\ report = [w \in WF |-> <<>>]
    /\ steps = [w \in WF |-> <<>>]
    /\ calcState = [c \in CALC |-> "WITHSCHEDULER"]
    /\ lazyCalc = [w \in WF |-> EmptyLazyCalc]
    /\ lazySubwf = [w \in WF |-> EmptyLazySubwf]
    /\ pc = "idle" /\ cw = None /\ cs = None /\ nx = NoNext
    /\ ev = Event("init", None, None, None, None)
    /\ repo = [w \in WF |-> IF stored[w] THEN LoadedRepo ELSE FreshRepo]

\* A process that has resolved no user yet, under profile p, on a database
\* whose records belong to the users o names and whose DbSetting table
\* exists (t) with the rows st.
InitEnv(p, o, t, st) ==
    [profile |-> p, cache |-> None,
     owner |-> [w \in WF |-> IF stored[w] THEN o[w] ELSE None],
     table |-> t, settings |-> st]

InitObjects ==
    /\ InitWorkflows
    /\ env = InitEnv("p1", [w \in WF |-> "u1@x"], TRUE, SettingsWith(SCHEMA_VERSION))

Idle == pc' = "idle" /\ cw' = None /\ cs' = None /\ nx' = NoNext /\ nbody' = nbody

\* --------------------------------------------------------- step invocation
\* w.m(*args) for a decorated method m: the wrapper up to the body.
Invoke(w, m, nargs) ==
    /\ pc = "idle" /\ ops > 0
    /\ ops' = ops - 1
    /\ LET r == WrapperPrelude(w, m, nargs)
       IN  /\ stored' = [stored EXCEPT ![w] = r.stored]
           /\ scriptMd5' = [scriptMd5 EXCEPT ![w] = r.md5]
           /\ repo' = [repo EXCEPT ![w] = r.repo]
           /\ env' = r.env
           /\ wfStatus' = r.db.st
           /\ calcState' = r.db.cs
           /\ steps' = [steps EXCEPT ![w] = r.steps]
           /\ ev' = Event("invoke", w, None, m, r.exc)
           /\ IF r.exc = None
              THEN pc' = "body" /\ cw' = w /\ cs' = m /\ nx' = NoNext /\ nbody' = nbody
              ELSE Idle
    /\ UNCHANGED <<report, lazyCalc, lazySubwf>>

\* ------------------------------------------------------ calls of the body
\* The caller name the engine reads from the stack is the step method
\* itself, or an undecorated method the body called.
BodyCallers == {cs, Helper}

BodyCall == pc = "body" /\ nbody > 0 /\ nbody' = nbody - 1

\* The calculations a body attaches are the ones it has just created: no
\* step holds them yet.  They are numbered in the order of their creation.
Attached(c) ==
    \E w \in WF :
        \/ \E k \in Callers : c \in Range(lazyCalc[w][k])
        \/ \E i \in 1..Len(steps[w]) : c \in Range(steps[w][i].calcs)

FreshCalc(c) ==
    /\ ~Attached(c)
    /\ c = "c2" => Attached("c1")

AttachCalculation(caller, c) ==
    /\ BodyCall
    /\ FreshCalc(c)
    /\ lazyCalc' = [lazyCalc EXCEPT ![cw][caller] = Append(@, c)]
    /\ ev' = Event("attach_calculation", cw, caller, c, None)
    /\ UNCHANGED <<env, repo, stored, wfStatus, scriptMd5, report, steps, calcState,
                   lazySubwf, pc, cw, cs, nx, ops>>

\* The sub-workflow handed over has been stored (its first step was run).
AttachWorkflow(caller, sub) ==
    /\ BodyCall
    /\ stored[sub]
    /\ lazySubwf' = [lazySubwf EXCEPT ![cw][caller] = Append(@, sub)]
    /\ ev' = Event("attach_workflow", cw, caller, sub, None)
    /\ UNCHANGED <<env, repo, stored, wfStatus, scriptMd5, report, steps, calcState,
                   lazyCalc, pc, cw, cs, nx, ops>>

\* next(arg) up to its first write.
NextBegin(caller, arg) ==
    /\ BodyCall
    /\ LET exc == NextChecks(cw, caller, arg)
       IN  IF exc # None
           THEN /\ pc' = "raised" /\ nx' = NoNext
                /\ ev' = Event("next", cw, caller, arg, exc)
           ELSE /\ pc' = NextOrder[1]
                /\ nx' = [caller |-> caller, arg |-> arg, i |-> 1, written |-> FALSE,
                          before |-> [row |-> get_step(steps[cw], caller),
                                      wf |-> wfStatus[cw]]]
                /\ ev' = Event("next_checked", cw, caller, arg, None)
    /\ UNCHANGED <<env, repo, stored, wfStatus, scriptMd5, report, steps, calcState,
                   lazyCalc, lazySubwf, cw, cs, ops>>

\* Leaving a write of next(): the following write, or the return.
Advance(stage, nxv) ==
    IF StageAfter(stage) = "done"
    THEN pc' = "body" /\ nx' = NoNext
         /\ ev' = Event("next", cw, nxv.caller, nxv.arg, None)
    ELSE pc' = StageAfter(stage) /\ nx' = [nxv EXCEPT !.i = 1]
         /\ ev' = Event("next_write", cw, nxv.caller, stage, None)

\* method_step.add_calculation(c), one buffered calculation at a time.
NextFlushCalc ==
    /\ pc = "flush_calc"
    /\ LET buf == lazyCalc[cw][nx.caller]
           k   == StepIdx(steps[cw], nx.caller)
       IN  IF nx.i <= Len(buf)
           THEN /\ steps' = [steps EXCEPT ![cw][k].calcs = Append(@, buf[nx.i])]
                /\ nx' = [nx EXCEPT !.i = @ + 1]
                /\ ev' = Event("add_calculation", cw, nx.caller, buf[nx.i], None)
                /\ UNCHANGED pc
           ELSE Advance("flush_calc", nx) /\ UNCHANGED steps
    /\ UNCHANGED <<env, repo, stored, wfStatus, scriptMd5, report, calcState, lazyCalc,
                   lazySubwf, cw, cs, nbody, ops>>

\* method_step.add_sub_workflow(w), one buffered sub-workflow at a time.
NextFlushSubwf ==
    /\ pc = "flush_subwf"
    /\ LET buf == lazySubwf[cw][nx.caller]
           k   == StepIdx(steps[cw], nx.caller)
       IN  IF nx.i <= Len(buf)
           THEN /\ steps' = [steps EXCEPT ![cw][k].subwfs = Append(@, buf[nx.i])]
                /\ nx' = [nx EXCEPT !.i = @ + 1]
                /\ ev' = Event("add_sub_workflow", cw, nx.caller, buf[nx.i], None)
                /\ UNCHANGED pc
           ELSE Advance("flush_subwf", nx) /\ UNCHANGED steps
    /\ UNCHANGED <<env, repo, stored, wfStatus, scriptMd5, report, calcState, lazyCalc,
                   lazySubwf, cw, cs, nbody, ops>>

\* Lines 525-531: next_method.wf_step_name (an AttributeError on a method
\* that is not decorated), then method_step.set_nextcall(...).
NextSetNextcall ==
    /\ pc = "set_nextcall"
    /\ LET k == StepIdx(steps[cw], nx.caller)
       IN  IF nx.arg = Helper
           THEN /\ pc' = "raised" /\ nx' = NoNext
                /\ ev' = Event("next", cw, nx.caller, nx.arg, "AttributeError")
                /\ UNCHANGED steps
           ELSE /\ steps' = [steps EXCEPT ![cw][k].nextcall = nx.arg]
                /\ Advance("set_nextcall", [nx EXCEPT !.written = TRUE])
    /\ UNCHANGED <<env, repo, stored, wfStatus, scriptMd5, report, calcState, lazyCalc,
                   lazySubwf, cw, cs, nbody, ops>>

\* The status next() gives the workflow (line 539).
NextWfStatusKeep(old) == old

NextWfStatus(old) == "RUNNING"

NextSetWfStatus ==
    /\ pc = "set_wfstatus"
    /\ wfStatus' = [wfStatus EXCEPT ![cw] = NextWfStatus(@)]
    /\ Advance("set_wfstatus", nx)
    /\ UNCHANGED <<env, repo, stored, scriptMd5, report, steps, calcState, lazyCalc,
                   lazySubwf, cw, cs, nbody, ops>>

\* Line 540.
NextSetStepStatus ==
    /\ pc = "set_stepstatus"
    /\ LET k == StepIdx(steps[cw], nx.caller)
       IN  steps' = [steps EXCEPT ![cw][k].status = "RUNNING"]
    /\ Advance("set_stepstatus", nx)
    /\ UNCHANGED <<env, repo, stored, wfStatus, scriptMd5, report, calcState, lazyCalc,
                   lazySubwf, cw, cs, nbody, ops>>

\* Line 653 on the row of the caller: set_status(SLEEP).
SleepRowReset(s) == [s EXCEPT !.status = "SLEEP", !.nextcall = wf_default_call]

SleepRow(s) == [s EXCEPT !.status = "SLEEP"]

\* sleep() (lines 639-653).
Sleep(caller) ==
    /\ BodyCall
    /\ LET k == StepIdx(steps[cw], caller)
       IN  IF k = 0
           THEN /\ pc' = "raised"
                /\ ev' = Event("sleep", cw, caller, None, "UnknownCaller")
                /\ UNCHANGED steps
           ELSE /\ steps' = [steps EXCEPT ![cw][k] = SleepRow(@)]
                /\ ev' = Event("sleep", cw, caller, None, None)
                /\ UNCHANGED pc
    /\ UNCHANGED <<env, repo, stored, wfStatus, scriptMd5, report, calcState, lazyCalc,
                   lazySubwf, cw, cs, nx, ops>>

\* The body raises an exception of its own.
BodyRaise ==
    /\ pc = "body"
    /\ pc' = "raised"
    /\ ev' = Event("body", cw, cs, None, "UserError")
    /\ UNCHANGED <<env, repo, stored, wfStatus, scriptMd5, report, steps, calcState,
                   lazyCalc, lazySubwf, cw, cs, nx, nbody, ops>>

\* The body handles the exception of an engine call and goes on.
BodyCatch ==
    /\ pc = "raised" /\ ev.op # "body"
    /\ pc' = "body"
    /\ ev' = Event("except", cw, cs, ev.op, None)
    /\ UNCHANGED <<env, repo, stored, wfStatus, scriptMd5, report, steps, calcState,
                   lazyCalc, lazySubwf, cw, cs, nx, nbody, ops>>

\* fun(cls) returns: the wrapper returns None (line 460).
BodyReturn ==
    /\ pc = "body"
    /\ Idle
    /\ ev' = Event("invoke_end", cw, None, cs, None)
    /\ UNCHANGED <<env, repo, stored, wfStatus, scriptMd5, report, steps, calcState,
                   lazyCalc, lazySubwf, ops>>

\* The two texts the except clause appends: a headline, and the traceback,
\* which has several lines and ends with a line break.
ErrorHeadline  == <<"ERROR ! This workflow got and error">>
ErrorTraceback == <<"full traceback: Traceback", NL, "UserError", NL>>

\* The status the except clause gives the step (line 458).
ExceptStepStatusKeep(old) == old

ExceptStepStatus(old) == "ERROR"

\* The except clause of the wrapper (lines 452-458): two lines on the
\* report, then the step is set to ERROR.  An exception of
\* append_to_report leaves the wrapper.
WrapperExcept ==
    /\ pc = "raised"
    /\ LET r == ReportRoot(cw, {})
           k == StepIdx(steps[cw], cs)
       IN  IF r.exc # None
           THEN /\ ev' = Event("invoke_end", cw, None, cs, r.exc)
                /\ UNCHANGED <<report, steps>>
           ELSE /\ report' = [report EXCEPT ![r.root] =
                              DbAppendToReport(DbAppendToReport(@, ErrorHeadline),
                                               ErrorTraceback)]
                /\ steps' = [steps EXCEPT ![cw][k].status = ExceptStepStatus(@)]
                /\ ev' = Event("invoke_end", cw, None, cs, None)
    /\ Idle
    /\ UNCHANGED <<env, repo, stored, wfStatus, scriptMd5, calcState, lazyCalc, lazySubwf,
                   ops>>

\* ------------------------------------------------------------ control ops
\* kill() (lines 626-637), called on a stored workflow between two ops.
Kill(w) ==
    /\ pc = "idle" /\ stored[w] /\ ops > 0 /\ ops' = ops - 1
    /\ LET r == KillWf(w, {}, Db(wfStatus, calcState))
       IN  /\ wfStatus' = r.st
           /\ calcState' = r.cs
           /\ ev' = Event("kill", w, None, None, IF r.ok THEN None ELSE "RuntimeError")
    /\ UNCHANGED <<env, repo, stored, scriptMd5, report, steps, lazyCalc, lazySubwf,
                   pc, cw, cs, nx, nbody>>

\* The status revive() leaves on the workflow (line 780).
ReviveWfStatusKeep(old) == old

ReviveWfStatus(old) == "RUNNING"

\* The digest revive() leaves (lines 758-766): the digest of script_path
\* when the stored one differs from it.
ReviveMd5Keep(w) == scriptMd5[w]

ReviveMd5(w) ==
    IF scriptMd5[w] # Md5(ScriptPath(w)) THEN Md5(ScriptPath(w)) ELSE scriptMd5[w]

\* The line revive() logs when it updates the digest.
ReviveLog(w) ==
    IF scriptMd5[w] # Md5(ScriptPath(w))
    THEN <<"The script has changed, MD5 is now updated">> ELSE <<>>

\* revive() (lines 755-780); the value recorded for the call is what it
\* logged.
\* The names of the rows get_steps(state=ERROR) yields (line 769).
ErrorSteps(w) ==
    {steps[w][i].name : i \in {j \in 1..Len(steps[w]) : steps[w][j].status = "ERROR"}}

\* revive() (lines 755-780); ev.arg names the steps it found in ERROR and
\* ev.ret is the line it logged.
Revive(w) ==
    /\ pc = "idle" /\ stored[w] /\ ops > 0 /\ ops' = ops - 1
    /\ scriptMd5' = [scriptMd5 EXCEPT ![w] = ReviveMd5(w)]
    /\ LET r == ReviveSteps(w, 1, [db |-> Db(wfStatus, calcState), steps |-> steps[w]])
       IN  /\ steps' = [steps EXCEPT ![w] = r.steps]
           /\ calcState' = r.db.cs
           /\ wfStatus' = IF r.db.ok THEN [r.db.st EXCEPT ![w] = ReviveWfStatus(@)]
                          ELSE r.db.st
           /\ ev' = [Event("revive", w, None, ErrorSteps(w),
                           IF r.db.ok THEN None ELSE "RuntimeError")
                        EXCEPT !.ret = ReviveLog(w)]
    /\ UNCHANGED <<env, repo, stored, report, lazyCalc, lazySubwf, pc, cw, cs, nx, nbody>>

\* The daemon re-materialises the workflow in a fresh process
\* (Workflow(uuid=...)): the lazy storage of the new object is empty.
Reload(w) ==
    /\ pc = "idle" /\ stored[w]
    /\ lazyCalc[w] # EmptyLazyCalc \/ lazySubwf[w] # EmptyLazySubwf
    /\ lazyCalc' = [lazyCalc EXCEPT ![w] = EmptyLazyCalc]
    /\ lazySubwf' = [lazySubwf EXCEPT ![w] = EmptyLazySubwf]
    /\ ev' = Event("load", w, None, None, None)
    /\ UNCHANGED <<env, repo, stored, wfStatus, scriptMd5, report, steps, calcState,
                   pc, cw, cs, nx, nbody, ops>>

\* -------------------------------------------------------------- path ops
\* add_path(src_abs, dst_path) (lines 181-197), called between two ops.
AddPath(w, src, dst) ==
    /\ pc = "idle" /\ ops > 0 /\ ops' = ops - 1
    /\ LET exc == IF PathOpRefused(w) THEN "ImmutableAfterCommit"
                  ELSE IF ~isabs(src) \/ isabs(dst) THEN "ValueError"
                  ELSE None
       IN  /\ ev' = Event("add_path", w, None, <<src, dst>>, exc)
           /\ repo' = IF exc = None
                      THEN SetCurrentFolder(w, current_folder(w) \cup {EntryOf(dst)})
                      ELSE repo
    /\ UNCHANGED <<env, stored, wfStatus, scriptMd5, report, steps, calcState,
                   lazyCalc, lazySubwf, pc, cw, cs, nx, nbody>>

\* remove_path(path) (lines 168-179), called between two ops.
RemovePath(w, path) ==
    /\ pc = "idle" /\ ops > 0 /\ ops' = ops - 1
    /\ LET exc == IF PathOpRefused(w) THEN "ImmutableAfterCommit"
                  ELSE IF isabs(path) THEN "ValueError"
                  ELSE None
       IN  /\ ev' = Event("remove_path", w, None, path, exc)
           /\ repo' = IF exc = None
                      THEN SetCurrentFolder(w, current_folder(w) \ {EntryOf(path)})
                      ELSE repo
    /\ UNCHANGED <<env, stored, wfStatus, scriptMd5, report, steps, calcState,
                   lazyCalc, lazySubwf, pc, cw, cs, nx, nbody>>

\* ------------------------------------------------------------ report ops
\* The report methods, called between two ops.
ReportCall(w) == pc = "idle" /\ stored[w] /\ ops > 0 /\ ops' = ops - 1

\* append_to_report(text) (lines 675-680).
AppendToReport(w, t) ==
    /\ ReportCall(w)
    /\ LET r == ReportRoot(w, {})
       IN  IF r.exc # None
           THEN /\ ev' = Event("append_to_report", w, None, t, r.exc)
                /\ UNCHANGED report
           ELSE /\ Len(splitlines(report[r.root])) < MaxReport
                /\ report' = [report EXCEPT ![r.root] = DbAppendToReport(@, <<t>>)]
                /\ ev' = Event("append_to_report", w, None, t, None)
    /\ UNCHANGED <<env, repo, stored, wfStatus, scriptMd5, steps, calcState, lazyCalc,
                   lazySubwf, pc, cw, cs, nx, nbody>>

\* clear_report() (lines 667-672).
ClearReport(w) ==
    /\ ReportCall(w)
    /\ LET r == ReportRoot(w, {})
       IN  IF r.exc # None
           THEN /\ ev' = Event("clear_report", w, None, None, r.exc)
                /\ UNCHANGED report
           ELSE /\ report' = [report EXCEPT ![r.root] = <<>>]
                /\ ev' = Event("clear_report", w, None, None, None)
    /\ UNCHANGED <<env, repo, stored, wfStatus, scriptMd5, steps, calcState, lazyCalc,
                   lazySubwf, pc, cw, cs, nx, nbody>>

\* get_report() (lines 660-665): the lines of the report it reads.
GetReport(w) ==
    /\ ReportCall(w)
    /\ LET r == ReportRoot(w, {})
       IN  IF r.exc # None
           THEN ev' = Event("get_report", w, None, None, r.exc)
           ELSE ev' = [Event("get_report", w, None, None, None)
                          EXCEPT !.ret = splitlines(report[r.root])]
    /\ UNCHANGED <<env, repo, stored, wfStatus, scriptMd5, report, steps, calcState,
                   lazyCalc, lazySubwf, pc, cw, cs, nx, nbody>>


\* ------------------------------------------------------------------ Next
\* One workflow, "A", runs its steps; "B" and "C" are sub-workflows it
\* attaches.  Every engine call a body can make is made, from the step
\* method and from an undecorated method, with every kind of argument.
Next ==
    \/ \E m \in StepMethods, nargs \in {0, 1} : Invoke("A", m, nargs)
    \/ \E c \in CALC : AttachCalculation(cs, c)
    \/ \E sub \in {"B", "C"} : AttachWorkflow(cs, sub)
    \/ \E caller \in BodyCallers, arg \in NextArgs : NextBegin(caller, arg)
    \/ NextFlushCalc
    \/ NextFlushSubwf
    \/ NextSetNextcall
    \/ NextSetWfStatus
    \/ NextSetStepStatus
    \/ \E caller \in BodyCallers : Sleep(caller)
    \/ BodyRaise
    \/ BodyCatch
    \/ BodyReturn
    \/ WrapperExcept
    \/ Kill("A")
    \/ Revive("A")
    \/ Reload("A")

Init == InitObjects /\ ops = MaxOps /\ nbody = MaxBodyOps

Spec == Init /\ [][Next]_vars

\* Three workflows: "A" and "B" run their first step, which attaches
\* calculations and sub-workflows, names no further step and may sleep.  A
\* sub-workflow is a workflow named after the one that attaches it ("C" is
\* only ever attached).  kill() is called on any of the three.
StrictlyBelow(w) == CASE w = "A" -> {"B", "C"} [] w = "B" -> {"C"} [] OTHER -> {}

NextKill ==
    \/ \E w \in {"A", "B"} : Invoke(w, "start", 0)
    \/ \E c \in CALC : AttachCalculation(cs, c)
    \/ \E sub \in StrictlyBelow(cw) : AttachWorkflow(cs, sub)
    \/ NextBegin(cs, wf_exit_call)
    \/ NextFlushCalc
    \/ NextFlushSubwf
    \/ NextSetNextcall
    \/ NextSetWfStatus
    \/ NextSetStepStatus
    \/ Sleep(cs)
    \/ BodyReturn
    \/ \E w \in WF : Kill(w)

AllStored ==
    /\ InitObjects
    /\ \A w \in WF : stored[w] /\ scriptMd5[w] = Md5(ScriptPath(w))

InitTree == AllStored /\ ops = MaxTreeOps /\ nbody = MaxTreeCalls

SpecKill == InitTree /\ [][NextKill]_vars

\* The same three workflows; the steps attach sub-workflows, and the three
\* report methods are called on any of the three.
NextReport ==
    \/ \E w \in {"A", "B"} : Invoke(w, "start", 0)
    \/ \E sub \in StrictlyBelow(cw) : AttachWorkflow(cs, sub)
    \/ NextBegin(cs, wf_exit_call)
    \/ NextFlushCalc
    \/ NextFlushSubwf
    \/ NextSetNextcall
    \/ NextSetWfStatus
    \/ NextSetStepStatus
    \/ BodyReturn
    \/ \E w \in WF, t \in Texts : AppendToReport(w, t)
    \/ \E w \in WF : ClearReport(w)
    \/ \E w \in WF : GetReport(w)

InitReport == AllStored /\ ops = MaxReportOps /\ nbody = MaxReportCalls

SpecReport == InitReport /\ [][NextReport]_vars

\* One workflow, "A": its step methods are called one after the other
\* (a body returns or raises at once) and the path methods are called
\* between two calls, with absolute and relative paths.
NextStore ==
    \/ \E m \in StepMethods, nargs \in {0, 1} : Invoke("A", m, nargs)
    \/ BodyRaise
    \/ BodyReturn
    \/ WrapperExcept
    \/ \E src \in Paths, dst \in Paths : AddPath("A", src, dst)
    \/ \E path \in Paths : RemovePath("A", path)

InitStore == InitObjects /\ ops = MaxStoreOps /\ nbody = 0

SpecStore == InitStore /\ [][NextStore]_vars

\* Three workflows again: the first step of "A" and of "B" attaches
\* sub-workflows, calls next() with the exit method or with None, and
\* returns or raises, before or after its next().
NextRaise ==
    \/ \E w \in {"A", "B"} : Invoke(w, "start", 0)
    \/ \E sub \in StrictlyBelow(cw) : AttachWorkflow(cs, sub)
    \/ \E arg \in {wf_exit_call, NoneArg} : NextBegin(cs, arg)
    \/ NextFlushCalc
    \/ NextFlushSubwf
    \/ NextSetNextcall
    \/ NextSetWfStatus
    \/ NextSetStepStatus
    \/ BodyRaise
    \/ BodyReturn
    \/ WrapperExcept

InitRaise == AllStored /\ ops = MaxRaiseOps /\ nbody = MaxRaiseCalls

SpecRaise == InitRaise /\ [][NextRaise]_vars

\* ------------------------------------------------------- users and schema
\* The active profile is changed (load_profile with another profile name)
\* between two operations.
SwitchProfile(p) ==
    /\ pc = "idle" /\ p # env.profile
    /\ env' = [env EXCEPT !.profile = p]
    /\ ev' = Event("switch_profile", None, None, p, None)
    /\ UNCHANGED <<repo, stored, wfStatus, scriptMd5, report, steps, calcState,
                   lazyCalc, lazySubwf, pc, cw, cs, nx, nbody, ops>>

\* get_automatic_user() called directly; ev.ret is the user it returns.
AutomaticUser ==
    /\ pc = "idle" /\ ops > 0 /\ ops' = ops - 1
    /\ LET u == get_automatic_user(env)
       IN  /\ env' = [env EXCEPT !.cache = u.cache]
           /\ ev' = [Event("get_automatic_user", None, None, None, u.exc)
                        EXCEPT !.ret = u.user]
    /\ UNCHANGED <<repo, stored, wfStatus, scriptMd5, report, steps, calcState,
                   lazyCalc, lazySubwf, pc, cw, cs, nx, nbody>>

\* The records kill_all() selects (lines 814-816): those of user u whose
\* status is not FINISHED, in the order of their creation.
WfOrder == <<"A", "B", "C">>

KillAllSelected(u, w) ==
    stored[w] /\ env.owner[w] = u /\ wfStatus[w] # "FINISHED"

RECURSIVE KillAllList(_, _)
KillAllList(u, i) ==
    IF i > Len(WfOrder) THEN <<>>
    ELSE IF KillAllSelected(u, WfOrder[i])
         THEN <<WfOrder[i]>> \o KillAllList(u, i + 1)
         ELSE KillAllList(u, i + 1)

\* kill_all() (lines 808-819): every selected workflow is loaded and killed.
KillAll ==
    /\ pc = "idle" /\ ops > 0 /\ ops' = ops - 1
    /\ LET u == get_automatic_user(env)
       IN  IF u.exc # None
           THEN /\ ev' = Event("kill_all", None, None, None, u.exc)
                /\ UNCHANGED <<env, wfStatus, calcState>>
           ELSE LET r == KillSubWfs(KillAllList(u.user, 1), 1, {},
                                    Db(wfStatus, calcState))
                IN  /\ env' = [env EXCEPT !.cache = u.cache]
                    /\ wfStatus' = r.st
                    /\ calcState' = r.cs
                    /\ ev' = Event("kill_all", None, None, None,
                                   IF r.ok THEN None ELSE "RuntimeError")
    /\ UNCHANGED <<repo, stored, scriptMd5, report, steps, lazyCalc, lazySubwf,
                   pc, cw, cs, nx, nbody>>

\* check_schema_version() called between two operations.
CheckSchemaVersion ==
    /\ pc = "idle" /\ ops > 0 /\ ops' = ops - 1
    /\ LET r == check_schema_version(env)
       IN  /\ env' = r.env
           /\ ev' = Event("check_schema_version", None, None, None, r.exc)
    /\ UNCHANGED <<repo, stored, wfStatus, scriptMd5, report, steps, calcState,
                   lazyCalc, lazySubwf, pc, cw, cs, nx, nbody>>

\* Three workflows whose records belong to any of the users; the first
\* step of "A" and of "B" attaches sub-workflows and calls next() with the
\* exit method; between two operations the profile changes, the user is
\* resolved and kill_all() runs.
NextUser ==
    \/ \E w \in {"A", "B"} : Invoke(w, "start", 0)
    \/ \E sub \in StrictlyBelow(cw) : AttachWorkflow(cs, sub)
    \/ NextBegin(cs, wf_exit_call)
    \/ NextFlushCalc
    \/ NextFlushSubwf
    \/ NextSetNextcall
    \/ NextSetWfStatus
    \/ NextSetStepStatus
    \/ BodyReturn
    \/ \E p \in Profiles : SwitchProfile(p)
    \/ AutomaticUser
    \/ KillAll

InitUser ==
    /\ InitWorkflows
    /\ \A w \in WF : stored[w] => scriptMd5[w] = Md5(ScriptPath(w))
    /\ \E o \in [WF -> DbUsers] :
           env = InitEnv("p1", o, TRUE, SettingsWith(SCHEMA_VERSION))
    /\ ops = MaxUserOps /\ nbody = MaxUserCalls

SpecUser ==
    /\ InitUser
    /\ [][NextUser]_vars

\* The database before the first migration (no DbSetting table), after it
\* (no version stored), and with the version of an older code or of this
\* code stored; the workflow "A" is used on it under any profile.
NextSchema ==
    \/ CheckSchemaVersion
    \/ \E p \in Profiles : SwitchProfile(p)
    \/ AutomaticUser
    \/ Invoke("A", "start", 0)
    \/ BodyReturn

InitSchema ==
    /\ InitWorkflows
    /\ \E t \in BOOLEAN, v \in {None, OldSchemaVersion, SCHEMA_VERSION} :
           /\ ~t => v = None
           /\ env = InitEnv("p1", [w \in WF |-> "u1@x"], t,
                            IF v = None THEN NoSettings ELSE SettingsWith(v))
    /\ ops = MaxSchemaOps /\ nbody = 0

SpecSchema ==
    /\ InitSchema
    /\ [][NextSchema]_vars

\* ---------------------------------------------------------------- status
\* set_status(status) (lines 331-333), called between two operations.
SetStatus(w, status) ==
    /\ pc = "idle" /\ stored[w] /\ ops > 0 /\ ops' = ops - 1
    /\ wfStatus' = [wfStatus EXCEPT ![w] = status]
    /\ ev' = Event("set_status", w, None, status, None)
    /\ UNCHANGED <<env, repo, stored, scriptMd5, report, steps, calcState,
                   lazyCalc, lazySubwf, pc, cw, cs, nx, nbody>>

\* has_finished_ok() (lines 343-345) on a status.
has_finished_ok(status) == status \in {"FINISHED", "SLEEP"}

\* w.has_finished_ok(); ev.ret is the value it returns.
HasFinishedOk(w) ==
    /\ pc = "idle" /\ stored[w] /\ ops > 0 /\ ops' = ops - 1
    /\ ev' = [Event("has_finished_ok", w, None, None, None)
                 EXCEPT !.ret = has_finished_ok(wfStatus[w])]
    /\ UNCHANGED <<env, repo, stored, wfStatus, scriptMd5, report, steps, calcState,
                   lazyCalc, lazySubwf, pc, cw, cs, nx, nbody>>

\* The statuses of "A" and "B" are set by the wrapper, by kill() and by
\* set_status(), and read by has_finished_ok().
NextStatus ==
    \/ Invoke("A", "start", 0)
    \/ BodyReturn
    \/ \E w \in {"A", "B"} : Kill(w)
    \/ \E w \in {"A", "B"}, status \in wf_states : SetStatus(w, status)
    \/ \E w \in {"A", "B"} : HasFinishedOk(w)

InitStatus ==
    /\ InitObjects
    /\ ops = MaxStatusOps /\ nbody = 0

SpecStatus ==
    /\ InitStatus
    /\ [][NextStatus]_vars

\* ---------------------------------------------------------------- revive
\* Workflow "A" runs its two steps; a body calls next() with the other
\* step or with the exit method, sleeps, raises or returns; between two
\* step calls the workflow is revived or killed.
NextRevive ==
    \/ \E m \in StepMethods : Invoke("A", m, 0)
    \/ \E arg \in StepMethods \cup {wf_exit_call} : NextBegin(cs, arg)
    \/ NextFlushCalc
    \/ NextFlushSubwf
    \/ NextSetNextcall
    \/ NextSetWfStatus
    \/ NextSetStepStatus
    \/ Sleep(cs)
    \/ BodyRaise
    \/ BodyReturn
    \/ WrapperExcept
    \/ Kill("A")
    \/ Revive("A")

InitRevive ==
    /\ InitObjects
    /\ ops = MaxReviveOps /\ nbody = MaxReviveCalls

SpecRevive ==
    /\ InitRevive
    /\ [][NextRevive]_vars

\* ---------------------------------------------------------------- cycles
\* The first step of "A" and of "B" attaches any stored workflow, itself
\* included, and calls next() with the exit method; between two step calls
\* a workflow is killed or a line is appended to a report.
NextCycle ==
    \/ \E w \in {"A", "B"} : Invoke(w, "start", 0)
    \/ \E sub \in WF : AttachWorkflow(cs, sub)
    \/ NextBegin(cs, wf_exit_call)
    \/ NextFlushCalc
    \/ NextFlushSubwf
    \/ NextSetNextcall
    \/ NextSetWfStatus
    \/ NextSetStepStatus
    \/ BodyReturn
    \/ \E w \in {"A", "B"} : Kill(w)
    \/ \E w \in {"A", "B"}, t \in Texts : AppendToReport(w, t)

InitCycle ==
    /\ AllStored
    /\ ops = MaxCycleOps /\ nbody = MaxCycleCalls

SpecCycle ==
    /\ InitCycle
    /\ [][NextCycle]_vars

\* ======================================================================
\* Properties
\* ======================================================================

\* The transition is a call of next() from a step body (it fails at once or
\* passes its checks).
IsNextCall ==
    pc = "body" /\ nbody' = nbody - 1 /\ ev'.op \in {"next", "next_checked"}

\* The transition is the call of a step method.
IsInvoke == pc = "idle" /\ ops' = ops - 1 /\ ev'.op = "invoke"

\* The row of step n of workflow w before and after the transition.
Row(w, n) == steps[w][StepIdx(steps[w], n)]
RowAfter(w, n) == steps'[w][StepIdx(steps'[w], n)]

\* C1 (flush before pointer): while next() runs, once the caller's
\* next_call has been written every calculation and sub-workflow buffered
\* for the caller is in the step's persistent lists; the same holds when
\* next() has returned.
C1_FlushBeforePointer ==
    /\ nx.written =>
         /\ Range(lazyCalc[cw][nx.caller]) \subseteq Range(Row(cw, nx.caller).calcs)
         /\ Range(lazySubwf[cw][nx.caller]) \subseteq Range(Row(cw, nx.caller).subwfs)
    /\ (pc = "body" /\ ev.op = "next" /\ ev.exc = None) =>
         /\ Range(lazyCalc[cw][ev.who]) \subseteq Range(Row(cw, ev.who).calcs)
         /\ Range(lazySubwf[cw][ev.who]) \subseteq Range(Row(cw, ev.who).subwfs)

\* C1 witness: the pointer has just been written by a next() whose caller
\* had buffered a calculation and a sub-workflow, and next() has not
\* returned yet.
C1_Witness ==
    /\ nx.written /\ pc = "set_wfstatus"
    /\ lazyCalc[cw][nx.caller] # <<>> /\ lazySubwf[cw][nx.caller] # <<>>
    /\ Row(cw, nx.caller).nextcall = nx.arg

\* C2 (fingerprint): a next() called while the stored digest differs from
\* the digest of script_path raises IntegrityViolation, whatever its
\* caller and argument, and writes nothing: step rows and workflow statuses
\* are unchanged.
C2_FingerprintRefusal ==
    [][(IsNextCall /\ scriptMd5[cw] # Md5(ScriptPath(cw))) =>
          /\ ev'.op = "next" /\ ev'.exc = "IntegrityViolation"
          /\ pc' = "raised"
          /\ UNCHANGED <<steps, wfStatus, calcState>>]_vars

\* C2 witness: next(None) called from an undecorated method was refused for
\* the digest.
C2_Witness ==
    /\ ev.op = "next" /\ ev.exc = "IntegrityViolation"
    /\ ev.who = Helper /\ ev.arg = NoneArg
    /\ scriptMd5[ev.wf] = StaleMd5

\* A workflow whose status is FINISHED has no step whose status is RUNNING
\* or INITIALIZED.
NoLiveStepIfFinished(w) ==
    wfStatus[w] = "FINISHED" =>
        \A i \in 1..Len(steps[w]) :
            steps[w][i].status \notin {"RUNNING", "INITIALIZED"}

\* C3 (finished workflows have no live step): every FINISHED workflow has
\* no RUNNING or INITIALIZED step; stated on the state kill() leaves when
\* it returns on a workflow that had a RUNNING step.
C3_FinishedHasNoLiveStep ==
    (/\ ev.op = "kill" /\ ev.exc = None
     /\ \E i \in 1..Len(steps[ev.wf]) : steps[ev.wf][i].status = "RUNNING")
        => NoLiveStepIfFinished(ev.wf)

\* C5 (kill is terminal): no call moves the status of a workflow away from
\* FINISHED.
C5_FinishedStaysFinished ==
    [][\A w \in WF : wfStatus[w] = "FINISHED" => wfStatus'[w] = "FINISHED"]_vars

\* The re-entry condition as the documentation states it, on the rows as
\* they are before the call: a row for m exists, its status is INITIALIZED,
\* RUNNING or FINISHED, and its next_call is neither the default value nor m.
GuardedRow(w, m) ==
    \E i \in 1..Len(steps[w]) :
        /\ steps[w][i].name = m
        /\ steps[w][i].status \in {"INITIALIZED", "RUNNING", "FINISHED"}
        /\ steps[w][i].nextcall \notin {wf_default_call, m}

\* C6 (re-entry guard): a step method called without arguments raises
\* StepAlreadyInitialized exactly when the re-entry condition holds, and
\* then the body does not run and step rows, workflow statuses and
\* calculations are unchanged.
C6_ReentryGuard ==
    [][(IsInvoke /\ ev'.exc # "InvalidStepCall") =>
          /\ (ev'.exc = "StepAlreadyInitialized") <=> GuardedRow(ev'.wf, ev'.arg)
          /\ (ev'.exc = "StepAlreadyInitialized") =>
                /\ pc' = "idle"
                /\ UNCHANGED <<steps, wfStatus, calcState, report>>]_vars

\* C6 witness: a step that had called next() on another step was called
\* again and refused.
C6_Witness ==
    /\ ev.op = "invoke" /\ ev.exc = "StepAlreadyInitialized"
    /\ Row(ev.wf, ev.arg).status = "RUNNING"
    /\ Row(ev.wf, ev.arg).nextcall \notin {wf_default_call, ev.arg}

\* C7 (restart): a step method called without arguments on a step in ERROR
\* or SLEEP is accepted whatever the step's next_call is, and when its body
\* starts every sub-workflow the step held is FINISHED, every calculation
\* it held is killed and both lists of the step are empty.
C7_RestartCleans ==
    [][(/\ IsInvoke /\ ev'.exc # "InvalidStepCall"
        /\ has_step(steps[ev'.wf], ev'.arg)
        /\ Row(ev'.wf, ev'.arg).status \in {"ERROR", "SLEEP"}) =>
          /\ ev'.exc = None /\ pc' = "body"
          /\ \A sub \in Range(Row(ev'.wf, ev'.arg).subwfs) : wfStatus'[sub] = "FINISHED"
          /\ \A c \in Range(Row(ev'.wf, ev'.arg).calcs) : calcState'[c] = "KILLED"
          /\ RowAfter(ev'.wf, ev'.arg).subwfs = <<>>
          /\ RowAfter(ev'.wf, ev'.arg).calcs = <<>>]_vars

\* C7 witness: the body of a step has started after a restart from ERROR;
\* the step has a next_call other than the default and itself, and the
\* sub-workflow and the calculation it held were killed.
C7_Witness ==
    /\ pc = "body" /\ ev.op = "invoke" /\ ev.exc = None
    /\ Row(ev.wf, ev.arg).status = "ERROR"
    /\ Row(ev.wf, ev.arg).nextcall \notin {wf_default_call, ev.arg}
    /\ Row(ev.wf, ev.arg).subwfs = <<>> /\ Row(ev.wf, ev.arg).calcs = <<>>
    /\ wfStatus["B"] = "FINISHED" /\ calcState["c1"] = "KILLED"

\* C10 (uniqueness): a workflow has at most one step row per step name.
C10_OneRowPerName ==
    \A w \in WF : \A i, j \in 1..Len(steps[w]) :
        steps[w][i].name = steps[w][j].name => i = j

\* C10 witness: the body of a step that already had a row (it was in ERROR,
\* SLEEP or RUNNING) has started again, and the workflow still has one row.
C10_Witness ==
    /\ pc = "body" /\ ev.op = "invoke" /\ ev.exc = None
    /\ Row(ev.wf, ev.arg).status \in {"ERROR", "SLEEP", "RUNNING"}
    /\ Len(steps[ev.wf]) = 1

\* The workflows attached to a step of a workflow of S, and S itself; with
\* `running`, only the steps whose status is RUNNING count.
Grow(S, running) ==
    S \cup {sub \in WF :
               \E w \in S : \E i \in 1..Len(steps[w]) :
                   /\ sub \in Range(steps[w][i].subwfs)
                   /\ running => steps[w][i].status = "RUNNING"}

RECURSIVE Closure(_, _, _)
Closure(S, running, n) ==
    IF n = 0 THEN S ELSE Closure(Grow(S, running), running, n - 1)

\* w and its descendants: through the steps of any status, or through the
\* RUNNING steps only.
Descendants(w)        == Closure({w}, FALSE, Cardinality(WF))
RunningDescendants(w) == Closure({w}, TRUE, Cardinality(WF))

CalcsOfRunningSteps(S) ==
    {c \in CALC : \E w \in S : \E i \in 1..Len(steps[w]) :
        steps[w][i].status = "RUNNING" /\ c \in Range(steps[w][i].calcs)}

\* C4 as claimed (kill closure): when kill() has returned on W, W and every
\* descendant of W, through steps of any status, is FINISHED, and every
\* calculation of a RUNNING step of W or of a descendant is terminal.
C4_KillClosureAnyStep ==
    (ev.op = "kill" /\ ev.exc = None) =>
        /\ \A d \in Descendants(ev.wf) : wfStatus[d] = "FINISHED"
        /\ \A c \in CalcsOfRunningSteps(Descendants(ev.wf)) : calcState[c] \in TerminalCalc

\* C4 as amended: when kill() has returned on W, W and every workflow
\* reached from W through the sub-workflow lists of RUNNING steps is
\* FINISHED, and every calculation of a RUNNING step of one of these
\* workflows is terminal.
C4_KillClosureRunningSteps ==
    (ev.op = "kill" /\ ev.exc = None) =>
        /\ \A d \in RunningDescendants(ev.wf) : wfStatus[d] = "FINISHED"
        /\ \A c \in CalcsOfRunningSteps(RunningDescendants(ev.wf)) :
               calcState[c] \in TerminalCalc

\* C4 witness: kill() has returned on "A", whose RUNNING step holds a
\* calculation and "B", whose RUNNING step holds "C".
C4_Witness ==
    /\ ev.op = "kill" /\ ev.wf = "A" /\ ev.exc = None
    /\ RunningDescendants("A") = {"A", "B", "C"}
    /\ "C" \notin Grow({"A"}, TRUE)
    /\ CalcsOfRunningSteps({"A"}) # {}
    /\ wfStatus["C"] = "FINISHED"

\* The workflows above w: the workflows of its parent steps, their parents,
\* and so on; and w itself.
Up(S) == S \cup {p \in WF : \E w \in S : \E pi \in ParentSteps(w) : pi[1] = p}

RECURSIVE UpClosure(_, _)
UpClosure(S, n) == IF n = 0 THEN S ELSE UpClosure(Up(S), n - 1)

Ancestors(w) == UpClosure({w}, Cardinality(WF))

\* w is in a tree: w and the workflows above it have at most one parent
\* step each.
InTree(w) == \A a \in Ancestors(w) : Cardinality(ParentSteps(a)) <= 1

\* The roots above w: in a tree, the root of w.
Roots(w) == {a \in Ancestors(w) : ParentSteps(a) = {}}

IsReportCall(op) == pc = "idle" /\ ops' = ops - 1 /\ ev'.op = op

\* C8 (report rooting): append_to_report(t) on a workflow of a tree returns
\* normally, adds t and a line break at the end of the report of the root
\* of the tree and changes no other report.
C8_AppendGoesToRoot ==
    [][(IsReportCall("append_to_report") /\ InTree(ev'.wf)) =>
          /\ ev'.exc = None
          /\ \A r \in Roots(ev'.wf) : report'[r] = report[r] \o <<ev'.arg, NL>>
          /\ \A o \in WF \ Roots(ev'.wf) : report'[o] = report[o]]_vars

\* C8 witness: "x" was appended on "C", a sub-workflow of a step of "B",
\* itself a sub-workflow of a step of "A"; it is on the report of "A" only.
C8_Witness ==
    /\ ev.op = "append_to_report" /\ ev.wf = "C" /\ ev.exc = None
    /\ InTree("C") /\ Ancestors("C") = {"A", "B", "C"} /\ Roots("C") = {"A"}
    /\ report["A"] = <<"x", NL>> /\ report["B"] = <<>> /\ report["C"] = <<>>

\* C9 (get_report, clear_report): on a workflow of a tree, get_report()
\* returns the lines of the report of the root, clear_report() empties the
\* report of the root and changes no other report; on a root both act on
\* its own report.
C9_GetAndClearUseRoot ==
    [][/\ (IsReportCall("get_report") /\ InTree(ev'.wf)) =>
             /\ ev'.exc = None
             /\ \A r \in Roots(ev'.wf) : ev'.ret = splitlines(report[r])
             /\ UNCHANGED report
       /\ (IsReportCall("clear_report") /\ InTree(ev'.wf)) =>
             /\ ev'.exc = None
             /\ \A r \in Roots(ev'.wf) : report'[r] = <<>>
             /\ \A o \in WF \ Roots(ev'.wf) : report'[o] = report[o]]_vars

\* C9 witness: get_report() on "B", a sub-workflow of a step of "A", has
\* returned the line held by the report of "A", the report of "B" being
\* empty.
C9_Witness ==
    /\ ev.op = "get_report" /\ ev.wf = "B" /\ ev.exc = None
    /\ Roots("B") = {"A"} /\ InTree("B")
    /\ ev.ret = << <<"x">> >> /\ report["A"] = <<"x", NL>> /\ report["B"] = <<>>

\* C11 (commit once): a call of a step method stores the workflow when it
\* has not been stored, by one record and one move of the sandbox to the
\* repository folder, and stores nothing when it has been; no object ever
\* has more than one record or more than one move.
C11_CommitOnce ==
    [][IsInvoke =>
          /\ stored'[ev'.wf]
          /\ IF stored[ev'.wf] THEN UNCHANGED repo
             ELSE /\ repo'[ev'.wf].records = 1 /\ repo'[ev'.wf].moves = 1
                  /\ repo'[ev'.wf].perm = repo[ev'.wf].temp
          /\ \A w \in WF : repo'[w].records <= 1 /\ repo'[w].moves <= 1]_vars

\* C11 witness: "A" was constructed fresh (a path was added to its
\* sandbox), then start and middle were called; it has one record, one
\* move, and the sandbox content is in the repository folder.
C11_Witness ==
    /\ ev.op = "invoke" /\ ev.wf = "A" /\ ev.exc = None
    /\ Len(steps["A"]) = 2
    /\ repo["A"].perm = {ClassEntry, "f"}
    /\ repo["A"].records = 1 /\ repo["A"].moves = 1

\* The transition is a call of add_path or remove_path.
IsPathCall ==
    pc = "idle" /\ ops' = ops - 1 /\ ev'.op \in {"add_path", "remove_path"}

\* C12 (immutable after commit): add_path and remove_path called on a stored
\* workflow (stored by a step call or loaded by uuid) raise
\* ImmutableAfterCommit and leave both folders unchanged, whatever the
\* paths.
C12_PathsImmutableAfterCommit ==
    [][(IsPathCall /\ stored[ev'.wf]) =>
          /\ ev'.exc = "ImmutableAfterCommit"
          /\ UNCHANGED repo]_vars

\* C12 witness: add_path with a valid source and destination was refused on
\* a workflow that a step call had stored.
C12_Witness ==
    /\ ev.op = "add_path" /\ ev.exc = "ImmutableAfterCommit"
    /\ ev.arg = <<"/tmp/f", "f">>
    /\ steps[ev.wf] # <<>> /\ repo[ev.wf].perm = {ClassEntry}

\* The transition is the except clause of the wrapper: the body of step cs
\* of workflow cw has raised, by itself or by an engine call it made.
IsBodyFailure == pc = "raised" /\ pc' = "idle"

\* C13 (exceptions of a body): when the body of a step of a workflow of a
\* tree raises, before or after a next(), the call of the step method
\* returns normally, the step's status is ERROR, and the traceback text is
\* at the end of the report of the root, no other report being changed.
C13_BodyExceptionIsRecorded ==
    [][(IsBodyFailure /\ InTree(cw)) =>
          /\ ev'.op = "invoke_end" /\ ev'.exc = None
          /\ RowAfter(cw, cs).status = "ERROR"
          /\ \A r \in Roots(cw) :
                /\ Len(report'[r]) > Len(report[r]) + Len(ErrorTraceback)
                /\ SubSeq(report'[r], 1, Len(report[r])) = report[r]
                /\ SubSeq(report'[r], Len(report'[r]) - Len(ErrorTraceback),
                          Len(report'[r]) - 1) = ErrorTraceback
          /\ \A o \in WF \ Roots(cw) : report'[o] = report[o]]_vars

\* C13 witness: the first step of "B", a sub-workflow of a step of "A", has
\* raised after its next(exit); it is in ERROR with its next_call written,
\* and the traceback is on the report of "A" only.
C13_Witness ==
    /\ pc = "idle" /\ ev.op = "invoke_end" /\ ev.wf = "B" /\ ev.exc = None
    /\ Roots("B") = {"A"} /\ InTree("B")
    /\ Row("B", "start").status = "ERROR"
    /\ Row("B", "start").nextcall = wf_exit_call
    /\ splitlines(report["A"])[2] = <<"full traceback: Traceback">>
    /\ report["B"] = <<>>

\* C14 (workflow to ERROR): when the body of a step raises an exception it
\* does not handle, the status of the workflow becomes ERROR.
C14_WorkflowBecomesError ==
    [][IsBodyFailure => wfStatus'[cw] = "ERROR"]_vars

\* next() has just returned normally to the body it was called from.
NextReturned == pc = "body" /\ ev.op = "next" /\ ev.exc = None

\* C15 (effects of next): when next(m) has returned to the body of step s,
\* the next_call of s is the name of m (or the exit value), the status of
\* s is RUNNING and the status of the workflow is RUNNING.
C15_NextEffects ==
    NextReturned =>
        /\ Row(cw, ev.who).nextcall = ev.arg
        /\ ev.arg \in StepMethods \cup {wf_exit_call}
        /\ Row(cw, ev.who).status = "RUNNING"
        /\ wfStatus[cw] = "RUNNING"

\* C15 witness: start has called next(middle), then middle has called
\* next(exit): both steps are RUNNING, the workflow is RUNNING.
C15_Witness ==
    /\ NextReturned /\ cw = "A" /\ cs = "middle" /\ ev.who = "middle"
    /\ has_step(steps["A"], "start")
    /\ Row("A", "start").status = "RUNNING"
    /\ Row("A", "start").nextcall = "middle"
    /\ Row("A", "middle").status = "RUNNING"
    /\ Row("A", "middle").nextcall = wf_exit_call
    /\ wfStatus["A"] = "RUNNING"

\* C16 (next_call names a step): the next_call of every step is the default
\* value, the exit value or the name of a decorated method; and a next(m)
\* that got past the digest, None and caller tests with m an undecorated
\* method has raised NotAStep.
C16_NextCallNamesAStep ==
    /\ \A w \in WF : \A i \in 1..Len(steps[w]) :
           steps[w][i].nextcall \in {wf_default_call, wf_exit_call} \cup StepMethods
    /\ (ev.op = "next" /\ ev.arg = Helper) =>
           ev.exc \in {"IntegrityViolation", "UnknownCaller", "NotAStep"}

\* The transition is a call of revive() that returns.
IsRevive == pc = "idle" /\ ops' = ops - 1 /\ ev'.op = "revive" /\ ev'.exc = None

\* C17 (revive): when revive() returns, every step that was in ERROR is
\* INITIALIZED with empty lists, its former sub-workflows are FINISHED and
\* its former calculations killed; every other step is unchanged; the
\* workflow is RUNNING and the stored digest is the digest of script_path.
C17_Revive ==
    [][IsRevive =>
          LET w == ev'.wf
          IN  /\ Len(steps'[w]) = Len(steps[w])
              /\ \A i \in 1..Len(steps[w]) :
                    IF steps[w][i].status = "ERROR"
                    THEN /\ steps'[w][i] = [steps[w][i] EXCEPT
                                               !.status = "INITIALIZED",
                                               !.calcs = <<>>, !.subwfs = <<>>]
                         /\ \A sub \in Range(steps[w][i].subwfs) :
                                wfStatus'[sub] = "FINISHED"
                         /\ \A c \in Range(steps[w][i].calcs) :
                                calcState'[c] = "KILLED"
                    ELSE steps'[w][i] = steps[w][i]
              /\ wfStatus'[w] = "RUNNING"
              /\ scriptMd5'[w] = Md5(ScriptPath(w))]_vars

\* C17 witness: revive() has returned on "A", whose step start was in ERROR
\* after its next(): the step is INITIALIZED with its next_call kept and no
\* attachment, and the sub-workflow and calculation it held were killed.
C17_Witness ==
    /\ ev.op = "revive" /\ ev.wf = "A" /\ ev.exc = None
    /\ has_step(steps["A"], "start")
    /\ Row("A", "start").status = "INITIALIZED"
    /\ Row("A", "start").nextcall # wf_default_call
    /\ Row("A", "start").calcs = <<>> /\ Row("A", "start").subwfs = <<>>
    /\ wfStatus["B"] = "FINISHED" /\ calcState["c1"] = "KILLED"
    /\ wfStatus["A"] = "RUNNING"

\* C18 (digest frame): the stored digest of a stored workflow is changed by
\* revive() only.
C18_OnlyReviveReseals ==
    [][\A w \in WF :
          (stored[w] /\ scriptMd5'[w] # scriptMd5[w]) =>
              (ev'.op = "revive" /\ ev'.wf = w)]_vars

\* C18 witness: a step of "A" had its next() refused for the digest and
\* went to ERROR; revive() has then updated the digest.
C18_Witness ==
    /\ ev.op = "revive" /\ ev.wf = "A" /\ ev.ret # <<>>
    /\ scriptMd5["A"] = Md5(ScriptPath("A"))
    /\ steps["A"] # <<>> /\ report["A"] # <<>>

NoDuplicate(seq) == \A i, j \in 1..Len(seq) : seq[i] = seq[j] => i = j

\* C19 (flush once, then drained): when next() has returned, the buffers of
\* its caller are empty, and no item is twice in a list of the step.
C19_FlushOnceAndDrain ==
    NextReturned =>
        /\ lazyCalc[cw][ev.who] = <<>> /\ lazySubwf[cw][ev.who] = <<>>
        /\ NoDuplicate(Row(cw, ev.who).calcs)
        /\ NoDuplicate(Row(cw, ev.who).subwfs)

\* The last n elements of seq, <<>> when it has fewer.
Suffix(seq, n) ==
    IF n > Len(seq) THEN <<>> ELSE SubSeq(seq, Len(seq) - n + 1, Len(seq))

\* The stages of next() that come after its two flushes.
AfterFlush == {"set_nextcall", "set_wfstatus", "set_stepstatus"}

\* C20 (flush order): attach_calculation and attach_workflow add at the end
\* of the caller's buffer; next() writes the buffered calculations at the
\* end of the step's calculation list in the order of the buffer, then the
\* buffered sub-workflows at the end of its sub-workflow list in the order
\* of the buffer, and no sub-workflow before every calculation is written.
C20_FlushOrder ==
    [][/\ ev'.op = "attach_calculation" =>
             lazyCalc'[cw][ev'.who] = Append(lazyCalc[cw][ev'.who], ev'.arg)
       /\ ev'.op = "attach_workflow" =>
             lazySubwf'[cw][ev'.who] = Append(lazySubwf[cw][ev'.who], ev'.arg)
       /\ ev'.op = "add_calculation" =>
             Suffix(RowAfter(cw, nx.caller).calcs, nx'.i - 1)
                 = SubSeq(lazyCalc[cw][nx.caller], 1, nx'.i - 1)
       /\ ev'.op = "add_sub_workflow" =>
             /\ Suffix(RowAfter(cw, nx.caller).subwfs, nx'.i - 1)
                    = SubSeq(lazySubwf[cw][nx.caller], 1, nx'.i - 1)
             /\ Suffix(Row(cw, nx.caller).calcs, Len(lazyCalc[cw][nx.caller]))
                    = lazyCalc[cw][nx.caller]
       /\ pc' \in AfterFlush =>
             /\ Suffix(RowAfter(cw, nx'.caller).calcs, Len(lazyCalc[cw][nx'.caller]))
                    = lazyCalc[cw][nx'.caller]
             /\ Suffix(RowAfter(cw, nx'.caller).subwfs, Len(lazySubwf[cw][nx'.caller]))
                    = lazySubwf[cw][nx'.caller]]_vars

\* C20 witness: start attached c1, c2, then "C", then "B", and its next()
\* has returned: the lists of the step are in that order.
C20_Witness ==
    /\ NextReturned /\ cw = "A"
    /\ Row("A", ev.who).calcs = <<"c1", "c2">>
    /\ Row("A", ev.who).subwfs = <<"C", "B">>
    /\ Row("A", ev.who).nextcall = wf_exit_call

\* C21 (successor after completion): the body of a step method m starts
\* only when every step whose next_call is m has all its calculations
\* terminal and all its sub-workflows FINISHED.
C21_SuccessorAfterCompletion ==
    [][(IsInvoke /\ ev'.exc = None) =>
          \A i \in 1..Len(steps[ev'.wf]) :
              (steps[ev'.wf][i].nextcall = ev'.arg /\ steps[ev'.wf][i].name # ev'.arg) =>
                  /\ \A c \in Range(steps[ev'.wf][i].calcs) :
                         calcState[c] \in TerminalCalc
                  /\ \A sub \in Range(steps[ev'.wf][i].subwfs) :
                         wfStatus[sub] = "FINISHED"]_vars

\* The user of the active profile: the user its configured e-mail names.
CurrentUser == get_configured_user_email(env.profile)

IsKillAll == pc = "idle" /\ ops' = ops - 1 /\ ev'.op = "kill_all"

\* C22 (kill_all): when kill_all() has returned, every workflow of the
\* current user has status FINISHED and the workflows of the other users
\* have the status they had.
C22_KillAllCurrentUserOnly ==
    [][(IsKillAll /\ ev'.exc = None) =>
          \A w \in WF :
              stored[w] =>
                  IF env.owner[w] = CurrentUser
                  THEN wfStatus'[w] = "FINISHED"
                  ELSE wfStatus'[w] = wfStatus[w]]_vars

IsAutomaticUser ==
    pc = "idle" /\ ops' = ops - 1 /\ ev'.op = "get_automatic_user"

IsSleepCall == pc = "body" /\ nbody' = nbody - 1 /\ ev'.op = "sleep"

C24_NullAndUnknownCaller ==
    [][/\ (IsNextCall /\ ev'.arg = NoneArg) =>
              /\ ev'.exc = "NullNext"
              /\ UNCHANGED <<steps, wfStatus, calcState>>
       /\ (IsNextCall /\ ev'.arg # NoneArg /\ ~has_step(steps[cw], ev'.who)) =>
              /\ ev'.exc = "UnknownCaller"
              /\ UNCHANGED <<steps, wfStatus, calcState>>
       /\ (IsSleepCall /\ ~has_step(steps[cw], ev'.who)) =>
              /\ ev'.exc = "UnknownCaller"
              /\ UNCHANGED <<steps, wfStatus, calcState>>]_vars

\* C24 (null argument, unknown caller): when the stored digest matches,
\* next(None) raises NullNext and a next() with another argument called
\* from a method without a row raises UnknownCaller; sleep() called from a
\* method without a row raises UnknownCaller; in each case the call ends
\* there and no step row, workflow status or calculation is changed.
C24_NullAndUnknownCallerAfterDigest ==
    [][/\ (IsNextCall /\ ~Md5Mismatch(cw) /\ ev'.arg = NoneArg) =>
              /\ ev'.op = "next" /\ ev'.exc = "NullNext" /\ pc' = "raised"
              /\ UNCHANGED <<steps, wfStatus, calcState>>
       /\ (/\ IsNextCall /\ ~Md5Mismatch(cw) /\ ev'.arg # NoneArg
           /\ ~has_step(steps[cw], ev'.who)) =>
              /\ ev'.op = "next" /\ ev'.exc = "UnknownCaller" /\ pc' = "raised"
              /\ UNCHANGED <<steps, wfStatus, calcState>>
       /\ (IsSleepCall /\ ~has_step(steps[cw], ev'.who)) =>
              /\ ev'.exc = "UnknownCaller" /\ pc' = "raised"
              /\ UNCHANGED <<steps, wfStatus, calcState>>]_vars

\* C24 witness: next(None) called from a step that holds a buffered
\* calculation, on a workflow whose digest matches, was refused.
C24_Witness ==
    /\ pc = "raised" /\ ev.op = "next" /\ ev.exc = "NullNext"
    /\ ~Md5Mismatch(ev.wf)
    /\ has_step(steps[ev.wf], ev.who)
    /\ lazyCalc[ev.wf][ev.who] # <<>>
    /\ Row(ev.wf, ev.who).calcs = <<>>

\* C25 (body starts INITIALIZED): when the body of a step method starts,
\* the status of the step's row is INITIALIZED.
C25_BodyStartsInitialized ==
    [][(IsInvoke /\ ev'.exc = None) =>
          RowAfter(ev'.wf, ev'.arg).status = "INITIALIZED"]_vars

\* C26 (positional arguments): a step method called with a positional
\* argument raises InvalidStepCall; its body is not run, no step row is
\* created or changed, and the workflow is stored: by this call, with one
\* record created, when it was not stored before.
C26_InvalidStepCall ==
    [][\A m \in StepMethods :
          Invoke("A", m, 1) =>
              /\ ev'.exc = "InvalidStepCall" /\ pc' = "idle"
              /\ steps' = steps
              /\ stored'["A"]
              /\ repo'["A"].records = 1
              /\ scriptMd5'["A"] = IF stored["A"] THEN scriptMd5["A"]
                                   ELSE Md5(ScriptPath("A"))]_vars

\* C26 witness: a call with a positional argument on a workflow that was
\* not stored has been refused; the workflow is stored and has no step.
C26_Witness ==
    /\ pc = "idle" /\ ev.op = "invoke" /\ ev.exc = "InvalidStepCall"
    /\ stored["A"] /\ repo["A"].records = 1 /\ repo["A"].moves = 1
    /\ steps["A"] = <<>>
    /\ ops = MaxStoreOps - 1

IsHasFinishedOk ==
    pc = "idle" /\ ops' = ops - 1 /\ ev'.op = "has_finished_ok"

\* C27 (has_finished_ok): has_finished_ok() returns true exactly when the
\* status of the workflow is FINISHED.
C27_FinishedOkOnlyWhenFinished ==
    [][IsHasFinishedOk => (ev'.ret = (wfStatus[ev'.wf] = "FINISHED"))]_vars

IsCheckSchemaVersion ==
    pc = "idle" /\ ops' = ops - 1 /\ ev'.op = "check_schema_version"

\* C29 (schema version): check_schema_version() returns only when the
\* DbSetting table is absent, and then nothing was written, or when the
\* stored version is the version of the code; on a table without a version
\* it stores the version of the code and returns; on a table with another
\* version it raises ConfigurationError and the stored version is the one
\* it was.
C29_CheckSchemaVersion ==
    [][IsCheckSchemaVersion =>
          /\ ev'.exc = None =>
                 \/ ~env.table /\ env' = env
                 \/ env'.table /\ get_db_schema_version(env') = SCHEMA_VERSION
          /\ (env.table /\ SchemaKey \notin DOMAIN env.settings) =>
                 /\ ev'.exc = None
                 /\ env'.settings = SettingsWith(SCHEMA_VERSION)
          /\ (/\ env.table /\ SchemaKey \in DOMAIN env.settings
              /\ env.settings[SchemaKey] # SCHEMA_VERSION) =>
                 /\ ev'.exc = "ConfigurationError"
                 /\ env' = env]_vars

\* C29 witness: the check has raised on a database that stores the version
\* of an older code, and the version is still stored.
C29_Witness ==
    /\ ev.op = "check_schema_version" /\ ev.exc = "ConfigurationError"
    /\ env.table /\ get_db_schema_version(env) = OldSchemaVersion

\* The transition ends a call of next() with an exception.
IsNextFailure == ev'.op = "next" /\ ev'.exc # None /\ pc' = "raised"

\* C30 (a failed next() writes nothing): when a call of next() raises,
\* whatever the reason, the row of the caller (its two lists, its next_call
\* and its status) and the status of the workflow are what they were when
\* next() was called.
C30_FailedNextIsAtomic ==
    [][IsNextFailure =>
          IF pc = "body"
          THEN UNCHANGED <<steps, wfStatus>>
          ELSE /\ get_step(steps'[cw], nx.caller) = nx.before.row
               /\ wfStatus'[cw] = nx.before.wf]_vars

\* C31 (revive makes ERROR steps callable): a step method called without
\* arguments right after a revive() that found its step in ERROR does not
\* raise StepAlreadyInitialized.
C31_RevivedStepCallable ==
    [][(/\ ev.op = "revive" /\ ev.exc = None
        /\ IsInvoke /\ ev'.wf = ev.wf /\ ev'.arg \in ev.arg
        /\ ev'.exc # "InvalidStepCall") =>
          ev'.exc # "StepAlreadyInitialized"]_vars

\* C32 (RUNNING has a continuation): in every state, also between two
\* writes of next(), a step whose status is RUNNING has a next_call other
\* than the default value.
C32_RunningHasNextCall ==
    \A w \in WF : \A i \in 1..Len(steps[w]) :
        steps[w][i].status = "RUNNING" => steps[w][i].nextcall # wf_default_call

\* C32 witness: revive() has returned on a workflow that has a step in
\* RUNNING, left by its next(), and a step it reset from ERROR.
C32_Witness ==
    /\ ev.op = "revive" /\ ev.exc = None /\ ev.arg # {}
    /\ \E i \in 1..Len(steps[ev.wf]) :
           /\ steps[ev.wf][i].status = "RUNNING"
           /\ steps[ev.wf][i].nextcall \in StepMethods

\* The workflows below w: the sub-workflows of its steps, theirs, and so on.
SubWfsOf(w) == UNION {Range(steps[w][i].subwfs) : i \in 1..Len(steps[w])}

Below(w) == Closure(SubWfsOf(w), FALSE, Cardinality(WF))

\* C33 (no cycle, kill ends): no workflow is below itself in the
\* sub-workflow relation of the steps, every call of kill() has returned,
\* and the parent walk of append_to_report() has ended.
C33_SubWorkflowsAcyclic ==
    /\ \A w \in WF : w \notin Below(w)
    /\ ev.op = "kill" => ev.exc = None
    /\ ev.op = "append_to_report" => ev.exc # "RuntimeError"

\* The two lists of a row.
Lists(s) == <<s.calcs, s.subwfs>>

\* The transition is a write of next() that appends the buffered item
\* nx.i of the caller's key to row i of workflow w, the caller's row.
IsFlushInto(w, i) ==
    /\ w = cw /\ steps[w][i].name = nx.caller
    /\ \/ /\ pc = "flush_calc" /\ nx.i <= Len(lazyCalc[cw][nx.caller])
          /\ Lists(steps'[w][i]) =
                 <<Append(steps[w][i].calcs, lazyCalc[cw][nx.caller][nx.i]),
                   steps[w][i].subwfs>>
       \/ /\ pc = "flush_subwf" /\ nx.i <= Len(lazySubwf[cw][nx.caller])
          /\ Lists(steps'[w][i]) =
                 <<steps[w][i].calcs,
                   Append(steps[w][i].subwfs, lazySubwf[cw][nx.caller][nx.i])>>

\* The transition is a restart of row i from ERROR or SLEEP, or a revive()
\* that found it in ERROR, and has emptied its lists.
IsClearingOf(w, i) ==
    /\ pc = "idle" /\ ev'.wf = w
    /\ \/ ev'.op = "invoke" /\ ev'.arg = steps[w][i].name
          /\ steps[w][i].status \in {"ERROR", "SLEEP"}
       \/ ev'.op = "revive" /\ steps[w][i].status = "ERROR"
    /\ Lists(steps'[w][i]) = <<<<>>, <<>>>>

\* C34 (frame of the attachment lists): the lists of a step row change
\* only by a write of next() called from that step, which appends an item
\* buffered under that step's name, or by the clearing of a restart or of
\* revive(); a new row has empty lists; and a next() that fails has added
\* nothing to the lists of its caller.
C34_ListsChangeOnlyBySuccessfulNext ==
    [][/\ \A w \in WF : \A i \in 1..Len(steps'[w]) :
              IF i > Len(steps[w]) THEN Lists(steps'[w][i]) = <<<<>>, <<>>>>
              ELSE Lists(steps'[w][i]) # Lists(steps[w][i]) =>
                       IsFlushInto(w, i) \/ IsClearingOf(w, i)
       /\ (IsNextFailure /\ pc # "body") =>
              Lists(get_step(steps'[cw], nx.caller)) = Lists(nx.before.row)]_vars

====
